---- MODULE Spec2Model ----
(***************************************************************************)
(* Model of the study-material processing backend (src/index.js):          *)
(* the POST /process-material/:id handler, the Dropbox account selection   *)
(* and token lifecycle helpers it calls, and the usage accounting.         *)
(*                                                                         *)
(* Every `await` of the handler is one atomic step of a request: the       *)
(* collaborator call takes effect and the synchronous code up to the next  *)
(* `await` runs.  Requests interleave between steps.                       *)
(***************************************************************************)
EXTENDS Integers, FiniteSets, Sequences, TLC

\* ------------------------------------------------------------------ bounds
\* Total number of processMaterial invocations explored.
MaxInvocations == 2
\* Total number of invocations explored in sequential execution.
MaxSeqInvocations == 4
\* Number of access tokens the provider mints through the refresh endpoint.
MaxMinted == 1
\* Number of shared links the provider already holds for a path.
MaxLinks == 2

\* ------------------------------------------------------- program constants
\* material.attempts >= 3 (index.js:272)
MAX_ATTEMPTS == 3
\* toFixed(4) (index.js:212): usage is kept in units of 10^-4 MB
MB_SCALE == 10000
\* 1024 * 1024 (index.js:212)
BYTES_PER_MB == 1048576
\* size in bytes of the stored source file of the material
FileBytes == 1048576

\* Concurrent request slots served by the single process.
Requests == {"r1", "r2"}
\* Rows of the dropbox_accounts table.
Accounts == {"acc1", "acc2"}

NoToken == 0
NoAccount == "none"
NoError == "null"

VARIABLES
    material,      \* the study_materials row of the job
    blob,          \* TRUE while the source object is in the study-materials bucket
    file_records,  \* number of file_records rows inserted for the job
    accounts,      \* the dropbox_accounts table
    live,          \* access tokens the provider currently accepts
    minted,        \* number of tokens minted by the OAuth endpoint so far
    maxBytesMB,    \* process.env.MAX_DROPBOX_ACCOUNT_BYTES_MB, in 10^-4 MB (0: unset)
    req,           \* per request: position in the handler and its local variables
    invocations,   \* number of invocations begun
    started,       \* number of invocations that passed the entry check
    writer,        \* the request whose write of the job row was the last one
    overlapped,    \* TRUE once a request has arrived while a handler was running
    acquired,      \* the account the last getDropboxTokenFromDB call returned (sequential runs)
    shared,        \* the shared links the provider holds for the uploaded path
    linkCall       \* position and locals of a createSharedLinkDirect call

vars == <<material, blob, file_records, accounts, live, minted, maxBytesMB,
          req, invocations, started, writer, overlapped, acquired, shared,
          linkCall>>

\* ----------------------------------------------------------------- values
\* Messages of the errors the handler can catch.
ErrDownload == "Object not found"
ErrSelect == "Failed to select dropbox account: "
ErrNoAccount == "No suitable Dropbox account found"
ErrNoRefresh == "Dropbox access token invalid and no refresh token for account id="
ErrNoClient == "Missing Dropbox client credentials for token refresh"
ErrRefresh == "Failed to refresh Dropbox token: "
ErrPersist == "Failed to update refreshed access token in DB: "
ErrUpload == "upload failed"
ErrLink == "shared link failed"
ErrMaxRetries == "Max retries reached"
\* Errors that leave createSharedLinkDirect: the failed list_shared_links call,
\* and the TypeError of reading .url of links[0] of an empty list.
ErrListLinks == "list_shared_links failed"
ErrNoLinks == "Cannot read properties of undefined (reading 'url')"

\* Shared-link URLs the provider hands out: [host, query].
ShareUrls == { [host |-> "www.dropbox.com", query |-> "?dl=0"] }
NoUrl == [host |-> "", query |-> ""]

\* A shared link as the provider returns it: [id, host, query].
NoLink == [id |-> "none", host |-> "", query |-> ""]

\* No createSharedLinkDirect call is running.
NoLinkCall == [pc |-> "idle", token |-> NoToken, branch |-> "none",
               url |-> NoLink, err |-> NoError]

\* The locals of a request that is not running.
IdleReq == [ pc |-> "idle", attempts |-> 0, accountId |-> NoAccount,
             dropboxToken |-> NoToken, row |-> NoAccount, rowToken |-> NoToken,
             site |-> "first", newAccessToken |-> NoToken, retryToken |-> NoToken,
             current |-> 0, url |-> NoUrl, err |-> NoError, response |-> "none",
             downloads |-> 0, selects |-> 0, refreshes |-> 0, uploads |-> 0,
             wrote |-> FALSE, failedAt |-> "none" ]

\* --------------------------------------------------------- pure helpers
\* Mutant of MaxRetriesReached: the bound is tested with > instead of >=.
MaxRetriesReachedStrict(attempts) == attempts > MAX_ATTEMPTS

\* if (material.attempts >= 3)
MaxRetriesReached(attempts) == attempts >= MAX_ATTEMPTS

\* Mutant of NextAttempts: the counter is written back without the increment.
NextAttemptsStuck(attempts) == attempts

\* attempts: (material.attempts || 0) + 1
NextAttempts(attempts) == attempts + 1

\* Mutant of RejectedRow: the rejection counts as one more attempt.
RejectedRowCounted(m) ==
    [m EXCEPT !.attempts = @ + 1, !.processing_status = "failed",
              !.processing_error = "Max retries reached"]

\* update({ processing_status: 'failed', processing_error: 'Max retries reached' })
RejectedRow(m) ==
    [m EXCEPT !.processing_status = "failed",
              !.processing_error = "Max retries reached"]

\* Mutant of ProcessingRow: the status is left as it was.
ProcessingRowKeepsStatus(m, attempts) ==
    [m EXCEPT !.attempts = NextAttempts(attempts), !.processing_error = "null"]

\* update({ attempts: (material.attempts || 0) + 1,
\*          processing_status: 'processing', processing_error: null })
ProcessingRow(m, attempts) ==
    [m EXCEPT !.attempts = NextAttempts(attempts),
              !.processing_status = "processing",
              !.processing_error = "null"]

\* Mutant of TouchedRow: the fast path leaves last_used as it was.
TouchedRowKeepsTime(row, tok, now) == row

\* Mutant of TouchedRow: the whole row read earlier is written back.
TouchedRowWritesToken(row, tok, now) ==
    [row EXCEPT !.access_token = tok, !.last_used = now]

\* update({ last_used: new Date() }) of the fast path; tok is the token of the
\* row as ensureAccessToken received it
TouchedRow(row, tok, now) == [row EXCEPT !.last_used = now]

\* Mutant of PersistedRow: only the timestamp is written.
PersistedRowDropsToken(row, tok, now) == [row EXCEPT !.last_used = now]

\* update({ access_token: newAccessToken, last_used: new Date() })
PersistedRow(row, tok, now) == [row EXCEPT !.access_token = tok, !.last_used = now]

\* Number((uploadBytes / (1024 * 1024)).toFixed(4)), in units of 10^-4 MB,
\* rounded to the nearest unit.  10^4 / 2^20 = 625 / 2^16; the whole megabytes
\* are converted apart so that the products stay within 32 bits.
ToMB(uploadBytes) ==
    (uploadBytes \div BYTES_PER_MB) * MB_SCALE
    + (((uploadBytes % BYTES_PER_MB) * (MB_SCALE \div 16)
        + (BYTES_PER_MB \div 32)) \div (BYTES_PER_MB \div 16))

\* Mutant of Eligible: an account whose usage equals the ceiling is kept.
EligibleInclusive(accs, ceiling) ==
    { a \in Accounts : ceiling > 0 => accs[a].bytes_used <= ceiling }

\* query.lt('bytes_used', maxBytesMB), applied only when maxBytesMB > 0
Eligible(accs, ceiling) ==
    { a \in Accounts : ceiling > 0 => accs[a].bytes_used < ceiling }

\* .order('last_used', { ascending: true }).limit(1): the rows the store may
\* return first (ties are broken by the store)
FirstByLastUsed(accs, ceiling) ==
    { a \in Eligible(accs, ceiling) :
        \A b \in Eligible(accs, ceiling) : accs[a].last_used <= accs[b].last_used }

\* new Date(): the clock is past every timestamp already stored
Now(accs) ==
    1 + (CHOOSE m \in { accs[a].last_used : a \in Accounts } :
            \A a \in Accounts : accs[a].last_used <= m)

\* Timestamps are only ever compared with each other: the table is kept with
\* each last_used replaced by its rank among the stored timestamps.
Ranked(accs) ==
    [a \in Accounts |->
        [accs[a] EXCEPT !.last_used =
            Cardinality({ accs[b].last_used : b \in
                            { c \in Accounts : accs[c].last_used < accs[a].last_used } })]]

\* accountRow.app_key || process.env.DROPBOX_CLIENT_ID, and the same for the
\* secret; the process-wide defaults are not set
HasClientCredentials(acc) == acc.app_key /\ acc.app_secret

\* Mutant of ReplaceDl: the url is stored as the provider returned it.
ReplaceDlKeeps(u) == u

\* url.replace('?dl=0', '?dl=1')
ReplaceDl(u) == IF u.query = "?dl=0" THEN [u EXCEPT !.query = "?dl=1"] ELSE u

\* The token the OAuth endpoint mints next.
FreshToken == Cardinality(Accounts) + minted + 1

\* Outcomes of a provider call made with credential tok: an expired or absent
\* credential is always refused, a live one may still fail for other reasons.
CallOutcomes(tok) == IF tok \in live THEN BOOLEAN ELSE {FALSE}

\* throw inside the try block: control moves to the catch clause, which reads
\* only the error
Throw(r, message, step) ==
    [req EXCEPT ![r] = [IdleReq EXCEPT !.pc = "catch", !.err = message,
                                       !.failedAt = step,
                                       !.wrote = req[r].wrote,
                                       !.attempts = req[r].attempts,
                                       !.downloads = req[r].downloads,
                                       !.selects = req[r].selects,
                                       !.refreshes = req[r].refreshes,
                                       !.uploads = req[r].uploads]]

\* res.json / res.status(..).json: the handler ends and its locals are dropped
Respond(r, body) ==
    [req EXCEPT ![r] = [IdleReq EXCEPT !.pc = "done", !.response = body]]

\* Mutant of RetryFailed: a failed retry runs the retry path again.
RetryFailedAgain(r) == [req EXCEPT ![r].pc = "refetch", ![r].uploads = @ + 1]

\* dbx2.filesUpload throws inside the inner catch: the error reaches the outer
\* catch clause
RetryFailed(r) == [Throw(r, "upload failed", "upload") EXCEPT ![r].uploads = @ + 1]

\* return { accountRow, accessToken } of ensureAccessToken to its call site
ReturnToken(r, tok) ==
    IF req[r].site = "first"
    THEN [req EXCEPT ![r].pc = "upload1", ![r].dropboxToken = tok,
                     ![r].row = NoAccount, ![r].rowToken = NoToken,
                     ![r].newAccessToken = NoToken]
    ELSE [req EXCEPT ![r].pc = "upload2", ![r].retryToken = tok,
                     ![r].row = NoAccount, ![r].rowToken = NoToken,
                     ![r].newAccessToken = NoToken]

\* return { accessToken: res.accessToken, accountId: account.id } of
\* getDropboxTokenFromDB: the account of the last call that returned, recorded
\* as long as requests have not overlapped.  The ensureAccessToken call of the
\* retry is not such a call.
Acquired(r) ==
    IF overlapped THEN NoAccount
    ELSE IF req[r].site = "first" THEN req[r].row ELSE acquired

\* ------------------------------------------------------------ initial state
\* The access token an account was provisioned with.
ProvisionedToken(a) == IF a = "acc1" THEN 1 ELSE 2

\* Account rows as provisioned out-of-band: the access token may be absent,
\* live or expired; the refresh token and the app key/secret may be missing.
AccountRows(a, lu) ==
    { [ access_token |-> t, refresh_token |-> rt, app_key |-> k, app_secret |-> k,
        bytes_used |-> 0, last_used |-> lu ] :
        t \in {NoToken, ProvisionedToken(a)}, rt \in BOOLEAN, k \in BOOLEAN }

\* The first account is the least recently used one and varies over the rows;
\* the second one is fully provisioned.
InitAccounts ==
    { accs \in [Accounts -> AccountRows("acc1", 0) \cup AccountRows("acc2", 1)] :
        /\ accs["acc1"] \in AccountRows("acc1", 0)
        /\ accs["acc2"] \in AccountRows("acc2", 1)
        /\ accs["acc2"].refresh_token /\ accs["acc2"].app_key
        /\ accs["acc2"].access_token # NoToken }

\* The first account's cases: refreshable with its token live, expired or
\* absent; app key and secret missing with an expired token; neither an access
\* nor a refresh token.  The second account's token is live.
InitCases(accs, lv) ==
    LET a1 == accs["acc1"] IN
    /\ lv \subseteq { accs[a].access_token : a \in Accounts } \ {NoToken}
    /\ ProvisionedToken("acc2") \in lv
    /\ \/ a1.refresh_token /\ a1.app_key
       \/ a1.refresh_token /\ ~a1.app_key /\ a1.access_token \notin lv \cup {NoToken}
       \/ ~a1.refresh_token /\ ~a1.app_key /\ a1.access_token = NoToken

\* The job as earlier, completed invocations left it: never attempted, or
\* failed after two attempts.
InitMaterials ==
    { [ attempts |-> n,
        processing_status |-> IF n = 0 THEN "pending" ELSE "failed",
        processing_error |-> IF n = 0 THEN NoError ELSE ErrDownload,
        processed_url |-> NoUrl ] : n \in {0, MAX_ATTEMPTS - 1} }

Init ==
    /\ material \in InitMaterials
    /\ blob = TRUE
    /\ file_records = 0
    /\ accounts \in InitAccounts
    /\ live \in SUBSET { accounts[a].access_token : a \in Accounts }
    /\ InitCases(accounts, live)
    /\ minted = 0
    /\ maxBytesMB = 0
    /\ req = [r \in Requests |-> IdleReq]
    /\ invocations = 0
    /\ started = material.attempts
    /\ writer = "none"
    /\ overlapped = FALSE
    /\ acquired = NoAccount
    /\ shared = <<>>
    /\ linkCall = NoLinkCall

\* ------------------------------------------- POST /process-material/:id
\* The slots that run no handler, and the first of them (slots are
\* interchangeable; r1 is used before r2).
Free == { q \in Requests : req[q].pc \in {"idle", "done"} }
FirstFree == IF "r1" \in Free THEN "r1" ELSE IF "r2" \in Free THEN "r2" ELSE "none"

\* A request arrives and passes verifyAdmin.  It is served in the first slot
\* that is not running a handler.
Start(r) ==
    /\ r = FirstFree
    /\ invocations < MaxInvocations
    /\ req' = [req EXCEPT ![r] = [IdleReq EXCEPT !.pc = "fetch"]]
    /\ invocations' = invocations + 1
    /\ overlapped' = (overlapped \/ Free # Requests)
    /\ acquired' = IF overlapped' THEN NoAccount ELSE acquired
    /\ UNCHANGED <<shared, linkCall>>
    /\ UNCHANGED <<material, blob, file_records, accounts, live, minted,
                   maxBytesMB, started, writer>>

\* STEP 1: select('*').eq('id', id).single(); 404 when it yields no row
Fetch(r) ==
    /\ req[r].pc = "fetch"
    /\ \E found \in BOOLEAN :
         req' = IF found
                THEN [req EXCEPT ![r].pc = "entry",
                                 ![r].attempts = material.attempts]
                ELSE Respond(r, "Material not found")
    /\ UNCHANGED <<acquired, shared, linkCall>>
    /\ UNCHANGED <<material, blob, file_records, accounts, live, minted,
                   maxBytesMB, invocations, started, writer, overlapped>>

\* The max-retries rejection, or the write that increments attempts and marks
\* the job as processing.
Entry(r) ==
    /\ req[r].pc = "entry"
    /\ IF MaxRetriesReached(req[r].attempts)
       THEN /\ material' = RejectedRow(material)
            /\ req' = Respond(r, ErrMaxRetries)
            /\ UNCHANGED started
       ELSE /\ material' = ProcessingRow(material, req[r].attempts)
            /\ req' = [req EXCEPT ![r].pc = "download", ![r].wrote = TRUE]
            /\ started' = started + 1
    /\ writer' = r
    /\ UNCHANGED <<acquired, shared, linkCall>>
    /\ UNCHANGED <<blob, file_records, accounts, live, minted, maxBytesMB,
                   invocations, overlapped>>

\* downloadFromSupabase(material.storage_path)
Download(r) ==
    /\ req[r].pc = "download"
    /\ \E ok \in (IF blob THEN BOOLEAN ELSE {FALSE}) :
         req' = IF ok
                THEN [req EXCEPT ![r].pc = "select",
                                 ![r].downloads = @ + 1]
                ELSE [Throw(r, ErrDownload, "download") EXCEPT
                                 ![r].downloads = @ + 1]
    /\ UNCHANGED <<acquired, shared, linkCall>>
    /\ UNCHANGED <<material, blob, file_records, accounts, live, minted,
                   maxBytesMB, invocations, started, writer, overlapped>>

\* ------------------------------------------------- getDropboxTokenFromDB
\* selectDropboxAccount(): the least recently used eligible row
Select(r) ==
    /\ req[r].pc = "select"
    /\ \E ok \in BOOLEAN :
         IF ~ok
         THEN req' = [Throw(r, ErrSelect, "select") EXCEPT ![r].selects = @ + 1]
         ELSE IF FirstByLastUsed(accounts, maxBytesMB) = {}
         THEN req' = [Throw(r, ErrNoAccount, "select") EXCEPT ![r].selects = @ + 1]
         ELSE \E a \in FirstByLastUsed(accounts, maxBytesMB) :
                req' = [req EXCEPT ![r].pc = "test", ![r].site = "first",
                                   ![r].selects = @ + 1,
                                   ![r].accountId = a, ![r].row = a,
                                   ![r].rowToken = accounts[a].access_token,
                                   ![r].refreshes = 0]
    /\ UNCHANGED <<acquired, shared, linkCall>>
    /\ UNCHANGED <<material, blob, file_records, accounts, live, minted,
                   maxBytesMB, invocations, started, writer, overlapped>>

\* ------------------------------------------------------ ensureAccessToken
\* accessToken && (await testDropboxToken(accessToken)), then the checks that
\* precede the refresh call
Test(r) ==
    /\ req[r].pc = "test"
    /\ \E valid \in (IF req[r].rowToken = NoToken THEN {FALSE}
                     ELSE CallOutcomes(req[r].rowToken)) :
         req' = IF valid THEN [req EXCEPT ![r].pc = "touch"]
                ELSE IF ~accounts[req[r].row].refresh_token
                THEN Throw(r, ErrNoRefresh, "ensure")
                ELSE IF ~HasClientCredentials(accounts[req[r].row])
                THEN Throw(r, ErrNoClient, "ensure")
                ELSE [req EXCEPT ![r].pc = "refresh"]
    /\ UNCHANGED <<acquired, shared, linkCall>>
    /\ UNCHANGED <<material, blob, file_records, accounts, live, minted,
                   maxBytesMB, invocations, started, writer, overlapped>>

\* fast path: update({ last_used: new Date() }) and return the current token
Touch(r) ==
    /\ req[r].pc = "touch"
    /\ accounts' = Ranked([accounts EXCEPT ![req[r].row] =
                              TouchedRow(@, req[r].rowToken, Now(accounts))])
    /\ req' = ReturnToken(r, req[r].rowToken)
    /\ acquired' = Acquired(r)
    /\ UNCHANGED <<shared, linkCall>>
    /\ UNCHANGED <<material, blob, file_records, live, minted, maxBytesMB,
                   invocations, started, writer, overlapped>>

\* refreshDropboxAccessToken(refreshToken, clientId, clientSecret)
Refresh(r) ==
    /\ req[r].pc = "refresh"
    /\ \E ok \in (IF minted < MaxMinted THEN BOOLEAN ELSE {FALSE}) :
         IF ok
         THEN /\ req' = [req EXCEPT ![r].pc = "persist",
                                    ![r].newAccessToken = FreshToken,
                                    ![r].refreshes = @ + 1]
              /\ live' = live \cup {FreshToken}
              /\ minted' = minted + 1
         ELSE /\ req' = [Throw(r, ErrRefresh, "refresh") EXCEPT
                                    ![r].refreshes = @ + 1]
              /\ UNCHANGED <<live, minted>>
    /\ UNCHANGED <<acquired, shared, linkCall>>
    /\ UNCHANGED <<material, blob, file_records, accounts, maxBytesMB,
                   invocations, started, writer, overlapped>>

\* update({ access_token: newAccessToken, last_used: new Date() }), the error
\* check and the return of the new token
Persist(r) ==
    /\ req[r].pc = "persist"
    /\ \E ok \in BOOLEAN :
         IF ok
         THEN /\ accounts' = Ranked([accounts EXCEPT ![req[r].row] =
                              PersistedRow(@, req[r].newAccessToken, Now(accounts))])
              /\ req' = ReturnToken(r, req[r].newAccessToken)
              /\ acquired' = Acquired(r)
         ELSE /\ req' = Throw(r, ErrPersist, "persist")
              /\ UNCHANGED <<accounts, acquired>>
    /\ UNCHANGED <<shared, linkCall>>
    /\ UNCHANGED <<material, blob, file_records, live, minted, maxBytesMB,
                   invocations, started, writer, overlapped>>

\* ------------------------------------------------------- upload and retry
\* dbx.filesUpload with the token of the first ensureAccessToken call
Upload1(r) ==
    /\ req[r].pc = "upload1"
    /\ \E ok \in CallOutcomes(req[r].dropboxToken) :
         req' = IF ok
                THEN [req EXCEPT ![r].pc = "link", ![r].uploads = @ + 1]
                ELSE [req EXCEPT ![r].pc = "refetch", ![r].uploads = @ + 1,
                                 ![r].err = ErrUpload]
    /\ UNCHANGED <<acquired, shared, linkCall>>
    /\ UNCHANGED <<material, blob, file_records, accounts, live, minted,
                   maxBytesMB, invocations, started, writer, overlapped>>

\* catch of the first upload: fetch the same account row by id, rethrow when
\* it cannot be read, otherwise run ensureAccessToken on it
Refetch(r) ==
    /\ req[r].pc = "refetch"
    /\ \E ok \in BOOLEAN :
         req' = IF ok
                THEN [req EXCEPT ![r].pc = "test", ![r].site = "retry",
                                 ![r].row = req[r].accountId,
                                 ![r].rowToken = accounts[req[r].accountId].access_token,
                                 ![r].refreshes = 0]
                ELSE Throw(r, ErrUpload, "upload")
    /\ UNCHANGED <<acquired, shared, linkCall>>
    /\ UNCHANGED <<material, blob, file_records, accounts, live, minted,
                   maxBytesMB, invocations, started, writer, overlapped>>

\* dbx2.filesUpload with the token ensureAccessToken returned to the retry
Upload2(r) ==
    /\ req[r].pc = "upload2"
    /\ \E ok \in CallOutcomes(req[r].retryToken) :
         req' = IF ok
                THEN [req EXCEPT ![r].pc = "link", ![r].uploads = @ + 1]
                ELSE RetryFailed(r)
    /\ UNCHANGED <<acquired, shared, linkCall>>
    /\ UNCHANGED <<material, blob, file_records, accounts, live, minted,
                   maxBytesMB, invocations, started, writer, overlapped>>

\* The credential of the client that makes the shared-link call: dbx, built
\* from the token of the first ensureAccessToken call
LinkToken(r) == req[r].dropboxToken

\* dbx.sharingCreateSharedLinkWithSettings and the rewrite of its url
Link(r) ==
    /\ req[r].pc = "link"
    /\ \E ok \in CallOutcomes(LinkToken(r)) :
         IF ok
         THEN \E u \in ShareUrls :
                req' = [req EXCEPT ![r].pc = "insert", ![r].url = ReplaceDl(u)]
         ELSE req' = Throw(r, ErrLink, "link")
    /\ UNCHANGED <<acquired, shared, linkCall>>
    /\ UNCHANGED <<material, blob, file_records, accounts, live, minted,
                   maxBytesMB, invocations, started, writer, overlapped>>

\* file_records insert; its result is not inspected
Insert(r) ==
    /\ req[r].pc = "insert"
    /\ \E ok \in BOOLEAN :
         IF ok
         THEN /\ file_records' = file_records + 1
              /\ req' = [req EXCEPT ![r].pc = "usage"]
         ELSE /\ UNCHANGED file_records
              /\ req' = [req EXCEPT ![r].pc = "usage", ![r].failedAt = "insert"]
    /\ UNCHANGED <<acquired, shared, linkCall>>
    /\ UNCHANGED <<material, blob, accounts, live, minted, maxBytesMB,
                   invocations, started, writer, overlapped>>

\* ----------------------------------------------- incrementDropboxBytesUsed
\* rpc('increment_dropbox_bytes_used'): bytes_used = coalesce(bytes_used,0) + add_mb
Usage(r) ==
    /\ req[r].pc = "usage"
    /\ \E ok \in BOOLEAN :
         IF ok
         THEN /\ accounts' = [accounts EXCEPT
                     ![req[r].accountId].bytes_used = @ + ToMB(FileBytes)]
              /\ req' = [req EXCEPT ![r].pc = "markdone"]
         ELSE /\ UNCHANGED accounts
              /\ req' = [req EXCEPT ![r].pc = "usageread"]
    /\ UNCHANGED <<acquired, shared, linkCall>>
    /\ UNCHANGED <<material, blob, file_records, live, minted, maxBytesMB,
                   invocations, started, writer, overlapped>>

\* fallback read: Number(data?.bytes_used || 0), 0 when the read yields no data
UsageRead(r) ==
    /\ req[r].pc = "usageread"
    /\ \E ok \in BOOLEAN :
         req' = [req EXCEPT ![r].pc = "usagewrite",
                            ![r].current = IF ok
                                           THEN accounts[req[r].accountId].bytes_used
                                           ELSE 0]
    /\ UNCHANGED <<acquired, shared, linkCall>>
    /\ UNCHANGED <<material, blob, file_records, accounts, live, minted,
                   maxBytesMB, invocations, started, writer, overlapped>>

\* Mutant of UsageWrite: a failed fallback write is thrown to the handler.
UsageWriteRaises(r) ==
    /\ req[r].pc = "usagewrite"
    /\ \E ok \in BOOLEAN :
         IF ok
         THEN /\ accounts' = [accounts EXCEPT ![req[r].accountId].bytes_used =
                                               req[r].current + ToMB(FileBytes)]
              /\ req' = [req EXCEPT ![r].pc = "markdone"]
         ELSE /\ UNCHANGED accounts
              /\ req' = Throw(r, "usage failed", "usage")
    /\ UNCHANGED <<acquired, shared, linkCall>>
    /\ UNCHANGED <<material, blob, file_records, live, minted, maxBytesMB,
                   invocations, started, writer, overlapped>>

\* fallback write: update({ bytes_used: current + mb }); its result is ignored
UsageWrite(r) ==
    /\ req[r].pc = "usagewrite"
    /\ \E ok \in BOOLEAN :
         accounts' = IF ok
                     THEN [accounts EXCEPT ![req[r].accountId].bytes_used =
                                              req[r].current + ToMB(FileBytes)]
                     ELSE accounts
    /\ req' = [req EXCEPT ![r].pc = "markdone"]
    /\ UNCHANGED <<acquired, shared, linkCall>>
    /\ UNCHANGED <<material, blob, file_records, live, minted, maxBytesMB,
                   invocations, started, writer, overlapped>>

\* ------------------------------------------------ completion and failure
\* update({ processed_url, file_url, processing_status: 'done', ... })
MarkDone(r) ==
    /\ req[r].pc = "markdone"
    /\ material' = [material EXCEPT !.processed_url = req[r].url,
                                    !.processing_status = "done"]
    /\ req' = [req EXCEPT ![r].pc = "remove"]
    /\ writer' = r
    /\ UNCHANGED <<acquired, shared, linkCall>>
    /\ UNCHANGED <<blob, file_records, accounts, live, minted, maxBytesMB,
                   invocations, started, overlapped>>

\* storage.remove([material.storage_path]) and the success response
Remove(r) ==
    /\ req[r].pc = "remove"
    /\ blob' = FALSE
    /\ req' = Respond(r, "Processing complete")
    /\ UNCHANGED <<acquired, shared, linkCall>>
    /\ UNCHANGED <<material, file_records, accounts, live, minted, maxBytesMB,
                   invocations, started, writer, overlapped>>

\* Mutant of Catch: the failure path removes the source as well.
CatchRemovesSource(r) ==
    /\ req[r].pc = "catch"
    /\ material' = [material EXCEPT !.processing_status = "failed",
                                    !.processing_error = req[r].err]
    /\ blob' = FALSE
    /\ req' = Respond(r, "Processing failed")
    /\ writer' = r
    /\ UNCHANGED <<acquired, shared, linkCall>>
    /\ UNCHANGED <<file_records, accounts, live, minted, maxBytesMB,
                   invocations, started, overlapped>>

\* catch (err): record the failure on the job and answer 500
Catch(r) ==
    /\ req[r].pc = "catch"
    /\ material' = [material EXCEPT !.processing_status = "failed",
                                    !.processing_error = req[r].err]
    /\ req' = Respond(r, "Processing failed")
    /\ writer' = r
    /\ UNCHANGED <<acquired, shared, linkCall>>
    /\ UNCHANGED <<blob, file_records, accounts, live, minted, maxBytesMB,
                   invocations, started, overlapped>>

\* ---------------------------------------------------------- specification
Next ==
    \E r \in Requests :
        \/ Start(r)
        \/ Fetch(r)
        \/ Entry(r)
        \/ Download(r)
        \/ Select(r)
        \/ Test(r)
        \/ Touch(r)
        \/ Refresh(r)
        \/ Persist(r)
        \/ Upload1(r)
        \/ Refetch(r)
        \/ Upload2(r)
        \/ Link(r)
        \/ Insert(r)
        \/ Usage(r)
        \/ UsageRead(r)
        \/ UsageWrite(r)
        \/ MarkDone(r)
        \/ Remove(r)
        \/ Catch(r)

Spec == Init /\ [][Next]_vars

\* Sequential execution: a request arrives only when no handler is running.
StartSeq(r) ==
    /\ Free = Requests
    /\ r = FirstFree
    /\ invocations < MaxSeqInvocations
    /\ req' = [req EXCEPT ![r] = [IdleReq EXCEPT !.pc = "fetch"]]
    /\ invocations' = invocations + 1
    /\ UNCHANGED <<acquired, shared, linkCall>>
    /\ UNCHANGED <<material, blob, file_records, accounts, live, minted,
                   maxBytesMB, started, writer, overlapped>>

NextSeq ==
    \E r \in Requests :
        \/ StartSeq(r)
        \/ Fetch(r)
        \/ Entry(r)
        \/ Download(r)
        \/ Select(r)
        \/ Test(r)
        \/ Touch(r)
        \/ Refresh(r)
        \/ Persist(r)
        \/ Upload1(r)
        \/ Refetch(r)
        \/ Upload2(r)
        \/ Link(r)
        \/ Insert(r)
        \/ Usage(r)
        \/ UsageRead(r)
        \/ UsageWrite(r)
        \/ MarkDone(r)
        \/ Remove(r)
        \/ Catch(r)

SpecSeq == Init /\ [][NextSeq]_vars

\* Accounts that earlier uploads of other materials have filled to different
\* levels, with MAX_DROPBOX_ACCOUNT_BYTES_MB unset or set: every row is fully
\* provisioned, its token live or expired, its usage 0, 1 or 2 MB; the two rows
\* were last used at the same time or the first one earlier.
UsageLevels == { 0, ToMB(FileBytes), 2 * ToMB(FileBytes) }

QuotaAccounts ==
    { accs \in InitAccounts :
        \A a \in Accounts : /\ accs[a].refresh_token /\ accs[a].app_key
                             /\ accs[a].access_token # NoToken }

InitQuota ==
    /\ material = [ attempts |-> 0, processing_status |-> "pending",
                    processing_error |-> NoError, processed_url |-> NoUrl ]
    /\ blob = TRUE
    /\ file_records = 0
    /\ \E accs \in QuotaAccounts, u1, u2 \in UsageLevels, tie \in BOOLEAN :
          accounts = Ranked([a \in Accounts |->
                        [accs[a] EXCEPT !.bytes_used = IF a = "acc1" THEN u1 ELSE u2,
                                        !.last_used = IF tie THEN 0 ELSE @]])
    /\ live \in SUBSET { ProvisionedToken(a) : a \in Accounts }
    /\ minted = 0
    /\ maxBytesMB \in UsageLevels
    /\ req = [r \in Requests |-> IdleReq]
    /\ invocations = 0
    /\ started = 0
    /\ writer = "none"
    /\ overlapped = FALSE
    /\ acquired = NoAccount
    /\ shared = <<>>
    /\ linkCall = NoLinkCall

\* Sequential execution over these accounts.
SpecQuota == InitQuota /\ [][NextSeq]_vars

\* The provider stops accepting an access token: access tokens are short-lived
\* and can expire at any moment between two calls.
Expire ==
    /\ \E t \in live : live' = live \ {t}
    /\ UNCHANGED <<acquired, shared, linkCall>>
    /\ UNCHANGED <<material, blob, file_records, accounts, minted, maxBytesMB,
                   req, invocations, started, writer, overlapped>>

\* Sequential execution in which tokens expire.
NextExpiry == Expire \/ NextSeq

SpecExpiry == Init /\ [][NextExpiry]_vars

\* ------------------------------------------------- createSharedLinkDirect
\* Shared links as the provider returns them for a path.
LinkUrls ==
    { [id |-> i, host |-> "www.dropbox.com", query |-> q] :
        i \in {"link1", "link2", "link3"}, q \in {"?dl=0", "?dl=1"} }

\* The lists of links the provider can hold for the path: no link twice.
SharedLists ==
    { l \in UNION { [1..n -> LinkUrls] : n \in 0..MaxLinks } :
        \A i, j \in 1..Len(l) : i # j => l[i].id # l[j].id }

\* url.replace("www.dropbox.com", "dl.dropboxusercontent.com").replace("?dl=0", "")
DirectUrl(u) ==
    [u EXCEPT !.host = IF @ = "www.dropbox.com" THEN "dl.dropboxusercontent.com" ELSE @,
              !.query = IF @ = "?dl=0" THEN "" ELSE @]

\* Mutant of FirstLink: the last entry of the list is taken.
LastLink(links) == links[Len(links)]

\* r.data.links[0]
FirstLink(links) == links[1]

\* A createSharedLinkDirect(token, dropboxPath) call begins; the path has the
\* shared links the provider already holds for it.
InitLink ==
    /\ material = [ attempts |-> 0, processing_status |-> "pending",
                    processing_error |-> NoError, processed_url |-> NoUrl ]
    /\ blob = TRUE
    /\ file_records = 0
    /\ accounts \in QuotaAccounts
    /\ live \in SUBSET { ProvisionedToken(a) : a \in Accounts }
    /\ minted = 0
    /\ maxBytesMB = 0
    /\ req = [r \in Requests |-> IdleReq]
    /\ invocations = 0
    /\ started = 0
    /\ writer = "none"
    /\ overlapped = FALSE
    /\ acquired = NoAccount
    /\ shared \in SharedLists
    /\ \E a \in Accounts :
          linkCall = [NoLinkCall EXCEPT !.pc = "create",
                                        !.token = accounts[a].access_token]

\* try: create_shared_link_with_settings.  The provider refuses to create a
\* second link for a path; any refusal or failure moves to the catch block.
CreateLink ==
    /\ linkCall.pc = "create"
    /\ \E ok \in (IF shared = <<>> THEN CallOutcomes(linkCall.token) ELSE {FALSE}) :
         IF ok
         THEN \E u \in LinkUrls :
                /\ shared' = <<u>>
                /\ linkCall' = [linkCall EXCEPT !.pc = "returned", !.branch = "create",
                                                !.url = DirectUrl(u)]
         ELSE /\ linkCall' = [linkCall EXCEPT !.pc = "list"]
              /\ UNCHANGED shared
    /\ UNCHANGED <<material, blob, file_records, accounts, live, minted, maxBytesMB,
                   req, invocations, started, writer, overlapped, acquired>>

\* catch (e): list_shared_links and r.data.links[0].url; a failed call and an
\* empty list both end the function with an exception
ListLinks ==
    /\ linkCall.pc = "list"
    /\ \E ok \in CallOutcomes(linkCall.token) :
         linkCall' = IF ~ok
                     THEN [linkCall EXCEPT !.pc = "thrown", !.branch = "list",
                                           !.err = ErrListLinks]
                     ELSE IF shared = <<>>
                     THEN [linkCall EXCEPT !.pc = "thrown", !.branch = "list",
                                           !.err = ErrNoLinks]
                     ELSE [linkCall EXCEPT !.pc = "returned", !.branch = "list",
                                           !.url = DirectUrl(FirstLink(shared))]
    /\ UNCHANGED <<material, blob, file_records, accounts, live, minted, maxBytesMB,
                   req, invocations, started, writer, overlapped, acquired, shared>>

NextLink == CreateLink \/ ListLinks

SpecLink == InitLink /\ [][NextLink]_vars

\* ================================================================ claims
\* Positions of a handler after the entry write and before its own next
\* write of the job row.
AfterEntry == { "download", "select", "test", "touch", "refresh", "persist",
                "upload1", "refetch", "upload2", "link", "insert", "usage",
                "usageread", "usagewrite", "markdone", "catch" }

\* The table without its timestamps.
WithoutLastUsed(accs) == [a \in Accounts |-> [accs[a] EXCEPT !.last_used = 0]]

\* C1: an invocation that read attempts >= 3 answers 'Max retries reached',
\* writes processing_status = failed with processing_error = 'Max retries
\* reached', leaves attempts as stored, and has made and makes no download, no
\* account selection, no refresh and no upload: it ends at once and touches
\* neither the storage nor the accounts table nor the provider.
C1_MaxRetriesRejected ==
    [][\A r \in Requests :
         (req[r].pc = "entry" /\ req[r].attempts >= 3 /\ req'[r].pc # "entry") =>
            /\ req'[r].pc = "done"
            /\ req'[r].response = "Max retries reached"
            /\ material'.processing_status = "failed"
            /\ material'.processing_error = "Max retries reached"
            /\ material'.attempts = material.attempts
            /\ req[r].downloads = 0 /\ req[r].selects = 0
            /\ req[r].refreshes = 0 /\ req[r].uploads = 0
            /\ <<blob, file_records, accounts, live, minted>>'
                 = <<blob, file_records, accounts, live, minted>>]_vars

C1_Witness ==
    \E r \in Requests :
        /\ req[r].response = "Max retries reached"
        /\ material.processing_error = "Max retries reached"
        /\ material.processing_status = "failed"
        /\ material.attempts >= 3

\* C2: the stored attempts value never exceeds 3, whatever the interleaving
\* of the invocations.
C2_AttemptsNeverExceedMax == material.attempts <= 3

\* Two overlapping invocations both read 2 and both wrote 3.
C2_Witness == material.attempts = 3 /\ started > 3

\* C3 as claimed: under any interleaving the number of invocations that passed
\* the entry check equals the stored attempts value, and is at most 3.
C3_StartedEqualsAttempts == started = material.attempts /\ started <= 3

\* C3 as amended: as long as no request has arrived while another handler was
\* running, the number of invocations that passed the entry check equals the
\* stored attempts value and is at most 3; in every case the stored value is
\* at most that number.
C3_SequentialStartedEqualsAttempts ==
    /\ material.attempts <= started
    /\ ~overlapped =>
         /\ started = material.attempts
         /\ started <= 3
         /\ \A r \in Requests :
               req[r].pc \in AfterEntry => req[r].attempts + 1 = started

\* Three attempts were started one after the other and the next invocation
\* was rejected.
C3_Witness ==
    /\ ~overlapped
    /\ started = 3
    /\ material.attempts = 3
    /\ \E r \in Requests : req[r].response = "Max retries reached"

\* C4: the write that increments attempts, sets processing_status = processing
\* and clears processing_error precedes the download, the account selection
\* and every provider call; while the handler is anywhere after that write and
\* no other request has written the row since, the row holds the incremented
\* attempts, status processing and no error (what a crash there would leave).
C4_EntryWriteFirst ==
    \A r \in Requests :
        /\ (req[r].downloads > 0 \/ req[r].selects > 0 \/ req[r].refreshes > 0
              \/ req[r].uploads > 0 \/ req[r].pc \in AfterEntry) => req[r].wrote
        /\ (~req[r].wrote) => req[r].pc \in {"idle", "fetch", "entry", "done"}
        /\ (writer = r /\ req[r].pc \in AfterEntry) =>
              /\ material.processing_status = "processing"
              /\ material.processing_error = "null"
              /\ material.attempts = req[r].attempts + 1

\* A handler stopped in the middle of the first upload.
C4_Witness ==
    \E r \in Requests :
        /\ req[r].pc = "upload1" /\ writer = r /\ req[r].downloads = 1
        /\ material.processing_status = "processing"
        /\ material.attempts = req[r].attempts + 1

\* C5: an invocation in which a step after the initial write failed (download,
\* account selection, token refresh, upload, link creation, record insert)
\* ends with a failure response and with processing_status = failed.
C5_FailureRecorded ==
    [][\A r \in Requests :
         (req[r].failedAt # "none" /\ req[r].pc # "done" /\ req'[r].pc = "done") =>
            /\ req'[r].response = "Processing failed"
            /\ material'.processing_status = "failed"]_vars

\* C6: once processing_status is done it stays done.
C6_DoneIsTerminal ==
    [][material.processing_status = "done" =>
         material'.processing_status = "done"]_vars

\* C7: an invocation makes at most two upload calls: the retry is made only
\* after exactly one failed upload, and after a second upload call no further
\* upload, account fetch or token step follows.
C7_AtMostTwoUploads ==
    \A r \in Requests :
        /\ req[r].uploads <= 2
        /\ req[r].pc = "upload1" => req[r].uploads = 0
        /\ req[r].pc \in {"refetch", "upload2"} => req[r].uploads = 1
        /\ req[r].uploads = 2 => req[r].pc \in {"link", "insert", "usage", "usageread",
                                                "usagewrite", "markdone", "remove",
                                                "catch"}

\* The retry failed too and the error is on its way to the failure path.
C7_Witness ==
    \E r \in Requests :
        req[r].pc = "catch" /\ req[r].uploads = 2 /\ req[r].failedAt = "upload"

\* C8: the retry upload uses a credential obtained from a refresh call made
\* after the first upload failed, never the credential of the failed upload.
C8_RetryUsesRefreshedToken ==
    \A r \in Requests :
        req[r].pc = "upload2" =>
            /\ req[r].refreshes = 1
            /\ req[r].retryToken # req[r].dropboxToken

\* C9: when the access credential is present and passes the validity check
\* (the handler is on the fast path), ensureAccessToken has made and makes no
\* refresh call, returns the credential of the row it was given, and changes
\* nothing in the accounts table but last_used.
C9_FastPathKeepsToken ==
    [][\A r \in Requests :
         /\ (req[r].pc = "test" /\ req[r].rowToken = NoToken) => req'[r].pc # "touch"
         /\ (req[r].pc = "touch" /\ req'[r].pc # "touch") =>
              /\ req[r].refreshes = 0 /\ req'[r].refreshes = 0
              /\ req[r].rowToken # NoToken
              /\ minted' = minted /\ live' = live
              /\ req'[r].pc \in {"upload1", "upload2"}
              /\ req'[r].pc = "upload1" => req'[r].dropboxToken = req[r].rowToken
              /\ req'[r].pc = "upload2" => req'[r].retryToken = req[r].rowToken
              /\ WithoutLastUsed(accounts') = WithoutLastUsed(accounts)
              /\ \A a \in Accounts \ {req[r].row} :
                    accounts'[req[r].row].last_used > accounts'[a].last_used]_vars

\* The fast path returned the stored token to the first upload.
C9_Witness ==
    \E r \in Requests :
        /\ req[r].pc = "upload1" /\ req[r].refreshes = 0
        /\ req[r].dropboxToken # NoToken
        /\ accounts[req[r].accountId].access_token = req[r].dropboxToken

\* C10: when the access credential is absent or fails the validity check and
\* the row has a refresh token and app key and secret, ensureAccessToken makes
\* exactly one refresh call; when it returns, the store holds the new
\* credential for that account and the returned credential is the stored one.
C10_RefreshOncePersisted ==
    [][\A r \in Requests :
         /\ req[r].pc = "refresh" => req[r].refreshes = 0
         /\ req[r].pc = "persist" => req[r].refreshes = 1
         /\ (req[r].pc = "test" /\ req'[r].pc \notin {"test", "touch"}
               /\ accounts[req[r].row].refresh_token
               /\ accounts[req[r].row].app_key /\ accounts[req[r].row].app_secret)
              => req'[r].pc = "refresh"
         /\ (req[r].pc = "refresh" /\ req'[r].pc # "refresh") =>
              req'[r].refreshes = 1 /\ req'[r].pc \in {"persist", "catch"}
         /\ (req[r].pc = "persist" /\ req'[r].pc \notin {"persist", "catch"}) =>
              /\ req'[r].refreshes = 1
              /\ req[r].newAccessToken \notin {NoToken, req[r].rowToken}
              /\ accounts'[req[r].row].access_token = req[r].newAccessToken
              /\ req'[r].pc \in {"upload1", "upload2"}
              /\ req'[r].pc = "upload1" => req'[r].dropboxToken = req[r].newAccessToken
              /\ req'[r].pc = "upload2" => req'[r].retryToken = req[r].newAccessToken]_vars

\* The refresh path returned the token it has just stored.
C10_Witness ==
    \E r \in Requests :
        /\ req[r].pc = "upload1" /\ req[r].refreshes = 1
        /\ req[r].dropboxToken # NoToken
        /\ accounts[req[r].accountId].access_token = req[r].dropboxToken

\* C11: once ensureAccessToken has obtained a new access token from the
\* refresh call, it returns that token to its caller whether the store write
\* that persists it succeeds or fails: the caller goes on to its upload with
\* the new token.
C11_PersistFailureReturnsToken ==
    [][\A r \in Requests :
         (req[r].pc = "persist" /\ req'[r].pc # "persist") =>
            /\ req'[r].pc \in {"upload1", "upload2"}
            /\ req'[r].pc = "upload1" => req'[r].dropboxToken = req[r].newAccessToken
            /\ req'[r].pc = "upload2" => req'[r].retryToken = req[r].newAccessToken]_vars

\* C13: account selection never hands ensureAccessToken an account that has
\* neither an access token nor a refresh token.
C13_UnusableNeverSelected ==
    \A r \in Requests :
        req[r].row # NoAccount =>
            \/ accounts[req[r].row].access_token # NoToken
            \/ accounts[req[r].row].refresh_token

\* C14: incrementDropboxBytesUsed never raises to the handler: from each of
\* its steps, whatever the store answers, the handler goes on to the next step
\* of the accounting or to the write of processing_status = done, which is
\* followed by the removal of the source and the success response.
C14_UsageNeverRaises ==
    [][\A r \in Requests :
         /\ (req[r].pc \in {"usage", "usageread", "usagewrite"} /\ req'[r] # req[r]) =>
              /\ req'[r].pc \in {"usageread", "usagewrite", "markdone"}
              /\ req'[r].err = req[r].err
              /\ req'[r].failedAt = req[r].failedAt
              /\ material' = material
         /\ (req[r].pc = "markdone" /\ req'[r].pc # "markdone") =>
              /\ req'[r].pc = "remove"
              /\ material'.processing_status = "done"
         /\ (req[r].pc = "remove" /\ req'[r].pc # "remove") =>
              /\ req'[r].response = "Processing complete"
              /\ material' = material]_vars

\* The only invocation inserted its record, every path of the accounting
\* failed (no usage was recorded), and the job is done.
C14_Witness ==
    /\ invocations = 1
    /\ file_records = 1
    /\ \A a \in Accounts : accounts[a].bytes_used = 0
    /\ material.processing_status = "done"
    /\ \E r \in Requests : req[r].response = "Processing complete"

\* C16 as claimed: the only invocation on a job with attempts = 0, in which
\* the first upload, the link creation and the record insert succeeded, ends
\* with attempts = 1, processing_status = done, processed_url without '?dl=0'
\* and with the provider host rewritten, the source removed and exactly one
\* file_records row.
C16_SuccessEndsDoneWithRewrittenHost ==
    [][\A r \in Requests :
         (/\ req[r].pc = "remove" /\ req'[r].pc # "remove"
          /\ invocations = 1 /\ req[r].attempts = 0
          /\ req[r].uploads = 1 /\ req[r].failedAt = "none") =>
            /\ material'.attempts = 1
            /\ material'.processing_status = "done"
            /\ material'.processed_url.query # "?dl=0"
            /\ material'.processed_url.host = "dl.dropboxusercontent.com"
            /\ ~blob'
            /\ file_records' = 1]_vars

\* C16 as amended: the same invocation ends with attempts = 1,
\* processing_status = done, processed_url equal to the provider's shared link
\* with '?dl=0' replaced by '?dl=1' and the host left as the provider gave it,
\* the source removed and exactly one file_records row.
C16_SuccessEndsDoneWithDl1 ==
    [][\A r \in Requests :
         (/\ req[r].pc = "remove" /\ req'[r].pc # "remove"
          /\ invocations = 1 /\ req[r].attempts = 0
          /\ req[r].uploads = 1 /\ req[r].failedAt = "none") =>
            /\ material'.attempts = 1
            /\ material'.processing_status = "done"
            /\ material'.processed_url = [host |-> "www.dropbox.com", query |-> "?dl=1"]
            /\ ~blob'
            /\ file_records' = 1
            /\ req'[r].response = "Processing complete"]_vars

\* The first invocation on a fresh job has completed.
C16_Witness ==
    /\ invocations = 1
    /\ material.attempts = 1
    /\ material.processing_status = "done"
    /\ material.processed_url.query = "?dl=1"
    /\ ~blob
    /\ file_records = 1

C18_LinkUsesRetryToken ==
    \A r \in Requests :
        (req[r].pc = "link" /\ req[r].uploads = 2) => LinkToken(r) = req[r].retryToken

\* C12: selectDropboxAccount changes nothing in the store; the account it
\* returns is eligible and no eligible account has an earlier last_used, where
\* with a ceiling configured the eligible accounts are those whose usage is
\* below it and without one all accounts are; it fails with 'No suitable
\* Dropbox account found' only when no account is eligible, and it fails
\* whenever none is.
C12_SelectLeastRecentlyUsed ==
    [][\A r \in Requests :
         (req[r].pc = "select" /\ req'[r].pc # "select") =>
            LET elig == IF maxBytesMB > 0
                        THEN { a \in Accounts : accounts[a].bytes_used < maxBytesMB }
                        ELSE Accounts
            IN  /\ <<material, blob, file_records, accounts, live, minted>>'
                     = <<material, blob, file_records, accounts, live, minted>>
                /\ req'[r].pc \in {"test", "catch"}
                /\ req'[r].pc = "test" =>
                      /\ req'[r].row \in elig
                      /\ req'[r].accountId = req'[r].row
                      /\ \A b \in elig :
                            accounts[req'[r].row].last_used <= accounts[b].last_used
                /\ req'[r].err = "No suitable Dropbox account found" => elig = {}
                /\ elig = {} =>
                      /\ req'[r].pc = "catch"
                      /\ req'[r].err \in {"No suitable Dropbox account found",
                                           "Failed to select dropbox account: "}]_vars

\* The ceiling excluded an account that was used less recently than the one
\* returned.
C12_Witness ==
    \E r \in Requests :
        /\ req[r].pc = "test" /\ req[r].site = "first"
        /\ maxBytesMB > 0
        /\ accounts[req[r].row].bytes_used < maxBytesMB
        /\ \E b \in Accounts :
              /\ accounts[b].bytes_used >= maxBytesMB
              /\ accounts[b].last_used < accounts[req[r].row].last_used

\* C15: the stored usage of an account never decreases, whichever path of
\* incrementDropboxBytesUsed writes it.
C15_UsageNeverDecreases ==
    [][\A a \in Accounts : accounts'[a].bytes_used >= accounts[a].bytes_used]_vars

\* C19: in sequential execution, when getDropboxTokenFromDB returns and at
\* least two eligible accounts have a live access token or a refresh token
\* with app key and secret, the account it returns is not the account the
\* previous returning call returned; on either path the returned account's
\* last_used becomes later than every other account's.
C19_ConsecutiveAcquisitionsDiffer ==
    [][\A r \in Requests :
         (/\ ~overlapped
          /\ req[r].pc \in {"touch", "persist"} /\ req[r].site = "first"
          /\ req'[r].pc = "upload1") =>
            LET elig == IF maxBytesMB > 0
                        THEN { a \in Accounts : accounts[a].bytes_used < maxBytesMB }
                        ELSE Accounts
                good == { a \in elig :
                            \/ accounts[a].access_token \in live
                            \/ /\ accounts[a].refresh_token
                               /\ accounts[a].app_key /\ accounts[a].app_secret }
            IN  /\ acquired' = req[r].row
                /\ \A a \in Accounts \ {req[r].row} :
                      accounts'[req[r].row].last_used > accounts'[a].last_used
                /\ (acquired # NoAccount /\ Cardinality(good) >= 2) =>
                      req[r].row # acquired]_vars

\* A second call is about to return another account than the first one did,
\* on the fast path, with both accounts eligible.
C19_Witness ==
    \E r \in Requests :
        /\ ~overlapped
        /\ req[r].pc = "touch" /\ req[r].site = "first"
        /\ acquired # NoAccount /\ req[r].row # acquired
        /\ \A a \in Accounts :
              /\ maxBytesMB > 0 /\ accounts[a].bytes_used < maxBytesMB
              /\ accounts[a].refresh_token /\ accounts[a].app_key

\* C17: createSharedLinkDirect never ends with the refusal of the create
\* call: when the path already has shared links and the list call is
\* answered, it returns the first entry of the list; on the create branch and
\* on the fallback branch alike the url it returns has the host
\* dl.dropboxusercontent.com and no '?dl=0'.
C17_ExistingLinkReturned ==
    /\ linkCall.pc = "returned" =>
          /\ shared # <<>>
          /\ linkCall.url.id = shared[1].id
          /\ linkCall.url.host = "dl.dropboxusercontent.com"
          /\ linkCall.url.query # "?dl=0"
          /\ linkCall.url.query = (IF shared[1].query = "?dl=0" THEN ""
                                                                ELSE shared[1].query)
    /\ linkCall.pc = "thrown" =>
          /\ linkCall.branch = "list"
          /\ linkCall.err \in {"list_shared_links failed",
                                "Cannot read properties of undefined (reading 'url')"}
          /\ shared # <<>> => linkCall.err = "list_shared_links failed"

\* The path had two shared links and the fallback returned the first one.
C17_Witness ==
    /\ linkCall.pc = "returned" /\ linkCall.branch = "list"
    /\ Len(shared) = 2
    /\ linkCall.url.id = shared[1].id
    /\ linkCall.url.host = "dl.dropboxusercontent.com"
====
